---- MODULE Spec2Model ----
(***************************************************************************)
(* Model of example/simple/monitor_serial.py: a script that opens a serial *)
(* port, polls it for 15 seconds, prints every line it reads (decoded as   *)
(* UTF-8 and right-stripped, or as raw bytes when decoding fails) and      *)
(* closes the port in a finally clause.                                    *)
(*                                                                         *)
(* One action per statement of the script.  The environment is the serial  *)
(* device (bytes arriving in the input buffer, I/O failures), the clock,   *)
(* and the user (KeyboardInterrupt, which Python raises asynchronously     *)
(* between two statements, wherever the script is).                        *)
(* Time is counted in whole seconds; it passes between two tests of the    *)
(* loop condition and while a read(1) blocks.  A byte that arrives no      *)
(* later than the expiry of the read timeout is read.                      *)
(***************************************************************************)
EXTENDS Integers, Sequences, FiniteSets

VARIABLES
    pc,          \* the statement the script is about to execute
    ser,         \* "unbound" until line 12 has assigned the name ser
    is_open,     \* ser.is_open
    now,         \* time.time()
    start_time,  \* line 18
    rxbuf,       \* bytes waiting in the port's input buffer (in_waiting = Len)
    dev,         \* bytes of the current line the device has still to send
    linesLeft,   \* lines the device may still start
    data,        \* line 21: bytes readline has collected / returned
    waited,      \* seconds the pending read(1) of readline has blocked
    text,        \* line 24
    out,         \* standard output, one record per print call
    exc,         \* exception propagating out of the try statement
    opens,       \* history: calls of serial.Serial
    openFailed,  \* history: serial.Serial raised SerialException
    polled,      \* history: ser.in_waiting was evaluated
    received,    \* history: the lines returned by readline, in order
    sent,        \* history: the bytes the device delivered, in order
    closeCount,  \* history: calls of ser.close()
    interrupts,  \* history: KeyboardInterrupts raised
    intrOpen     \* history: a KeyboardInterrupt was raised while ser.is_open

vars == <<pc, ser, is_open, now, start_time, rxbuf, dev, linesLeft, data,
          waited, text, out, exc, opens, openFailed, polled, received, sent,
          closeCount, interrupts, intrOpen>>

(* ------------------------------ bounds --------------------------------- *)
MaxLines == 1
MaxInterrupts == 2

(* ------------------------- program constants --------------------------- *)
DURATION == 15
TIMEOUT == 1

NEWLINE == 10

\* The lines the device may send: "hi \n", "e-acute\n" (C3 A9 0A) and the
\* invalid bytes FF FE 0A.
DeviceLines ==
    { <<104, 105, 32, 10>>, <<195, 169, 10>>, <<255, 254, 10>> }

(* ----------------------- bytes.decode('utf-8') ------------------------- *)
IsCont(b) == b \in 128..191

LeadLen(b) ==
    IF b < 128 THEN 1
    ELSE IF b \in 194..223 THEN 2
    ELSE IF b \in 224..239 THEN 3
    ELSE IF b \in 240..244 THEN 4
    ELSE 0

\* The second byte of a 3- or 4-byte sequence is restricted so that overlong
\* forms, surrogates and code points above U+10FFFF are rejected.
SecondOk(b1, b2) ==
    IF b1 = 224 THEN b2 \in 160..191
    ELSE IF b1 = 237 THEN b2 \in 128..159
    ELSE IF b1 = 240 THEN b2 \in 144..191
    ELSE IF b1 = 244 THEN b2 \in 128..143
    ELSE IsCont(b2)

SeqOk(b, n) ==
    /\ n >= 1
    /\ Len(b) >= n
    /\ n >= 2 => SecondOk(b[1], b[2])
    /\ \A i \in 3..n : IsCont(b[i])

CodePoint(b, n) ==
    IF n = 1 THEN b[1]
    ELSE IF n = 2 THEN (b[1] % 32) * 64 + (b[2] % 64)
    ELSE IF n = 3 THEN (b[1] % 16) * 4096 + (b[2] % 64) * 64 + (b[3] % 64)
    ELSE (b[1] % 8) * 262144 + (b[2] % 64) * 4096 + (b[3] % 64) * 64 + (b[4] % 64)

RECURSIVE Utf8Decode(_)
Utf8Decode(b) ==
    IF b = <<>> THEN [ok |-> TRUE, str |-> <<>>]
    ELSE LET n == LeadLen(b[1]) IN
         IF ~SeqOk(b, n) THEN [ok |-> FALSE, str |-> <<>>]
         ELSE LET rest == Utf8Decode(SubSeq(b, n + 1, Len(b))) IN
              [ok |-> rest.ok,
               str |-> IF rest.ok THEN <<CodePoint(b, n)>> \o rest.str ELSE <<>>]

(* ----------------------------- str.rstrip() ---------------------------- *)
IsSpace(c) ==
    \/ c \in 9..13
    \/ c \in 28..32
    \/ c \in {133, 160, 5760, 8232, 8233, 8239, 8287, 12288}
    \/ c \in 8192..8202

\* variant: only the line terminator is removed
RECURSIVE RStripNewlineOnly(_)
RStripNewlineOnly(s) ==
    IF s = <<>> \/ s[Len(s)] # 10 THEN s
    ELSE RStripNewlineOnly(SubSeq(s, 1, Len(s) - 1))

RECURSIVE RStrip(_)
RStrip(s) ==
    IF s = <<>> \/ ~IsSpace(s[Len(s)]) THEN s
    ELSE RStrip(SubSeq(s, 1, Len(s) - 1))

(* ------------------------------ output --------------------------------- *)
Msg(k) == [kind |-> k, val |-> <<>>]
TextLine(s) == [kind |-> "text", val |-> s]
RawLine(b) == [kind |-> "raw", val |-> b]

Emit(m) == out' = Append(out, m)

(* ------------------------------- Init ---------------------------------- *)
Init ==
    /\ pc = "open"
    /\ ser = "unbound"
    /\ is_open = FALSE
    /\ now = 0
    /\ start_time = 0
    /\ rxbuf = <<>>
    /\ dev = <<>>
    /\ linesLeft = MaxLines
    /\ data = <<>>
    /\ waited = 0
    /\ text = <<>>
    /\ out = <<>>
    /\ exc = "none"
    /\ opens = 0
    /\ openFailed = FALSE
    /\ polled = FALSE
    /\ received = <<>>
    /\ sent = <<>>
    /\ closeCount = 0
    /\ interrupts = 0
    /\ intrOpen = FALSE

history == <<opens, openFailed, polled, received, sent, closeCount, interrupts, intrOpen>>
device == <<rxbuf, dev, linesLeft, sent>>

(* ------------------------ the try body, lines 12-28 -------------------- *)
\* line 12: ser = serial.Serial(port, baudrate, timeout=1)
OpenOk ==
    /\ pc = "open"
    /\ opens' = opens + 1
    /\ ser' = "bound"
    /\ is_open' = TRUE
    /\ pc' = "banner1"
    /\ UNCHANGED <<now, start_time, device, data, waited, text, out, exc,
                   openFailed, polled, received, closeCount, interrupts, intrOpen>>

\* line 12 raises serial.SerialException: ser stays unbound
OpenFail ==
    /\ pc = "open"
    /\ opens' = opens + 1
    /\ openFailed' = TRUE
    /\ pc' = "except_serial"
    /\ UNCHANGED <<ser, is_open, now, start_time, device, data, waited, text, out,
                   exc, polled, received, closeCount, interrupts, intrOpen>>

\* lines 13-15: the three prints of the connect banner
BannerNext(p) ==
    IF p = "banner1" THEN "banner2" ELSE IF p = "banner2" THEN "banner3" ELSE "start"

BannerMsg(p) ==
    IF p = "banner1" THEN Msg("connected")
    ELSE IF p = "banner2" THEN Msg("monitoring") ELSE Msg("separator")

Banner ==
    /\ pc \in {"banner1", "banner2", "banner3"}
    /\ Emit(BannerMsg(pc))
    /\ pc' = BannerNext(pc)
    /\ UNCHANGED <<ser, is_open, now, start_time, device, data, waited, text, exc,
                   history>>

\* line 18: start_time = time.time()
Start ==
    /\ pc = "start"
    /\ start_time' = now
    /\ pc' = "while"
    /\ UNCHANGED <<ser, is_open, now, device, data, waited, text, out, exc, history>>

\* line 19: while time.time() - start_time < 15
LoopGuard(t, s) == t - s < DURATION

While ==
    /\ pc = "while"
    /\ \E d \in 0..1 : now' = now + d
    /\ pc' = IF LoopGuard(now', start_time) THEN "check" ELSE "finally"
    /\ UNCHANGED <<ser, is_open, start_time, device, data, waited, text, out, exc,
                   history>>

\* line 20: if ser.in_waiting > 0
\* variant: the comparison written >= 0
InWaitingNonNegative(n) == n >= 0

InWaitingPositive(n) == n > 0

Check ==
    /\ pc = "check"
    /\ polled' = TRUE
    /\ IF InWaitingPositive(Len(rxbuf))
       THEN pc' = "readline" /\ data' = <<>> /\ waited' = 0
       ELSE pc' = "while" /\ UNCHANGED <<data, waited>>
    /\ UNCHANGED <<ser, is_open, now, start_time, device, text, out, exc, opens,
                   openFailed, received, closeCount, interrupts, intrOpen>>

\* line 20: ser.in_waiting raises (the device went away)
CheckRaise ==
    /\ pc = "check"
    /\ polled' = TRUE
    /\ \/ pc' = "except_serial" /\ exc' = exc
       \/ pc' = "finally" /\ exc' = "OtherError"
    /\ UNCHANGED <<ser, is_open, now, start_time, device, data, waited, text, out,
                   opens, openFailed, received, closeCount, interrupts, intrOpen>>

\* line 21: data = ser.readline().  readline calls read(1) until it has read
\* a newline or a read(1) returns nothing; timeout=1 bounds each read(1).
ReadlineDone(d) ==
    /\ received' = Append(received, d)
    /\ pc' = "decode"

ReadByte ==
    /\ pc = "readline"
    /\ rxbuf # <<>>
    /\ data' = Append(data, Head(rxbuf))
    /\ rxbuf' = Tail(rxbuf)
    /\ waited' = 0
    /\ IF Head(rxbuf) = NEWLINE
       THEN ReadlineDone(data')
       ELSE pc' = "readline" /\ received' = received
    /\ UNCHANGED <<ser, is_open, now, start_time, dev, linesLeft, sent, text, out,
                   exc, opens, openFailed, polled, closeCount, interrupts, intrOpen>>

ReadWait ==
    /\ pc = "readline"
    /\ rxbuf = <<>>
    /\ waited < TIMEOUT
    /\ waited' = waited + 1
    /\ now' = now + 1
    /\ UNCHANGED <<pc, ser, is_open, start_time, device, data, text, out, exc,
                   history>>

ReadTimeout ==
    /\ pc = "readline"
    /\ rxbuf = <<>>
    /\ waited = TIMEOUT
    /\ ReadlineDone(data)
    /\ UNCHANGED <<ser, is_open, now, start_time, device, data, waited, text, out,
                   exc, opens, openFailed, polled, closeCount, interrupts, intrOpen>>

\* line 21: the read raises serial.SerialException
ReadRaise ==
    /\ pc = "readline"
    /\ pc' = "except_serial"
    /\ UNCHANGED <<ser, is_open, now, start_time, device, data, waited, text, out,
                   exc, history>>

\* line 24: text = data.decode('utf-8').rstrip(); UnicodeDecodeError -> line 26
\* variant: no handler for UnicodeDecodeError, the error leaves the loop
DecodeFailUnhandled == "finally"

DecodeFailTarget == "print_raw"

Decode ==
    /\ pc = "decode"
    /\ LET r == Utf8Decode(data) IN
       IF r.ok
       THEN text' = RStrip(r.str) /\ pc' = "print_text"
       ELSE text' = text /\ pc' = DecodeFailTarget
    /\ UNCHANGED <<ser, is_open, now, start_time, device, data, waited, out, exc,
                   history>>

\* line 25: print(text)
PrintText ==
    /\ pc = "print_text"
    /\ Emit(TextLine(text))
    /\ pc' = "while"
    /\ UNCHANGED <<ser, is_open, now, start_time, device, data, waited, text, exc,
                   history>>

\* line 28: print(f"Raw bytes: {data}")
PrintRaw ==
    /\ pc = "print_raw"
    /\ Emit(RawLine(data))
    /\ pc' = "while"
    /\ UNCHANGED <<ser, is_open, now, start_time, device, data, waited, text, exc,
                   history>>

(* ---------------------- the handlers, lines 30-33 ---------------------- *)
\* variant: the handler sits inside the loop and polling resumes after it
ExceptSerialResume ==
    /\ pc = "except_serial"
    /\ Emit(Msg("error"))
    /\ pc' = IF ser = "bound" THEN "while" ELSE "finally"
    /\ UNCHANGED <<ser, is_open, now, start_time, device, data, waited, text, exc,
                   history>>

\* line 31: print(f"Error opening serial port: {e}")
ExceptSerial ==
    /\ pc = "except_serial"
    /\ Emit(Msg("error"))
    /\ pc' = "finally"
    /\ UNCHANGED <<ser, is_open, now, start_time, device, data, waited, text, exc,
                   history>>

\* line 33: print("\nStopped by user")
ExceptKeyboardInterrupt ==
    /\ pc = "except_ki"
    /\ Emit(Msg("stopped"))
    /\ pc' = "finally"
    /\ UNCHANGED <<ser, is_open, now, start_time, device, data, waited, text, exc,
                   history>>

(* ---------------------- the finally clause, 34-37 ---------------------- *)
\* line 35: if 'ser' in locals() and ser.is_open
\* variant: the finally clause closes without testing anything
MustCloseUnguarded(s, o) == TRUE

MustClose(s, o) == s = "bound" /\ o

Finally ==
    /\ pc = "finally"
    /\ pc' = IF MustClose(ser, is_open) THEN "close" ELSE "done"
    /\ UNCHANGED <<ser, is_open, now, start_time, device, data, waited, text, out,
                   exc, history>>

\* line 36: ser.close()
Close ==
    /\ pc = "close"
    /\ closeCount' = closeCount + 1
    /\ is_open' = FALSE
    /\ pc' = "print_closed"
    /\ UNCHANGED <<ser, now, start_time, device, data, waited, text, out, exc,
                   opens, openFailed, polled, received, interrupts, intrOpen>>

\* line 37: print("Serial port closed")
PrintClosed ==
    /\ pc = "print_closed"
    /\ Emit(Msg("closed"))
    /\ pc' = "done"
    /\ UNCHANGED <<ser, is_open, now, start_time, device, data, waited, text, exc,
                   history>>

(* ------------------------- KeyboardInterrupt --------------------------- *)
TryBody == {"open", "banner1", "banner2", "banner3", "start", "while", "check",
            "readline", "decode", "print_text", "print_raw"}
Handlers == {"except_serial", "except_ki"}
Cleanup == {"finally", "close", "print_closed"}

\* Raised in the try body it is caught by line 32; raised in a handler it
\* leaves the handler, the finally clause runs and it propagates; raised in
\* the finally clause it leaves that clause at once.
InterruptTarget(p) ==
    IF p \in TryBody THEN "except_ki"
    ELSE IF p \in Handlers THEN "finally"
    ELSE "done"

Interrupt ==
    /\ pc \in TryBody \cup Handlers \cup Cleanup
    /\ interrupts < MaxInterrupts
    /\ interrupts' = interrupts + 1
    /\ intrOpen' = (intrOpen \/ is_open)
    /\ pc' = InterruptTarget(pc)
    /\ exc' = IF pc \in TryBody THEN exc ELSE "KeyboardInterrupt"
    /\ UNCHANGED <<ser, is_open, now, start_time, device, data, waited, text, out,
                   opens, openFailed, polled, received, closeCount>>

(* ----------------------------- the device ------------------------------ *)
Polling == {"while", "check", "readline", "decode", "print_text", "print_raw"}

\* The device puts the next byte of its current line, or the first byte of
\* a new line, into the input buffer of the open port.  Bytes that arrive
\* once the script has left the loop are left out: nothing reads them.
DeviceSend ==
    /\ is_open
    /\ pc \in Polling
    /\ \E l \in (IF dev # <<>> THEN {dev} ELSE IF linesLeft > 0 THEN DeviceLines ELSE {}) :
          /\ rxbuf' = Append(rxbuf, Head(l))
          /\ sent' = Append(sent, Head(l))
          /\ dev' = Tail(l)
          /\ linesLeft' = IF dev # <<>> THEN linesLeft ELSE linesLeft - 1
    /\ UNCHANGED <<pc, ser, is_open, now, start_time, data, waited, text, out, exc,
                   opens, openFailed, polled, received, closeCount, interrupts,
                   intrOpen>>

Next ==
    \/ OpenOk
    \/ OpenFail
    \/ Banner
    \/ Start
    \/ While
    \/ Check
    \/ CheckRaise
    \/ ReadByte
    \/ ReadWait
    \/ ReadTimeout
    \/ ReadRaise
    \/ Decode
    \/ PrintText
    \/ PrintRaw
    \/ ExceptSerial
    \/ ExceptKeyboardInterrupt
    \/ Finally
    \/ Close
    \/ PrintClosed
    \/ Interrupt
    \/ DeviceSend

Spec == Init /\ [][Next]_vars

(* ======================================================================= *)
(* Properties                                                              *)
(* ======================================================================= *)
Count(k) == Cardinality({i \in 1..Len(out) : out[i].kind = k})

IsLine(m) == m.kind \in {"text", "raw"}
LineOutputs == SelectSeq(out, IsLine)

IsPrefix(a, b) == Len(a) <= Len(b) /\ SubSeq(b, 1, Len(a)) = a

RECURSIVE Flatten(_)
Flatten(ss) == IF ss = <<>> THEN <<>> ELSE Head(ss) \o Flatten(Tail(ss))

Elapsed == now - start_time

(* --- UTF-8 as the Unicode standard defines it, by encoding ------------- *)
IsScalar(c) == c \in 0..55295 \/ c \in 57344..1114111

Utf8Encode1(c) ==
    IF c < 128 THEN <<c>>
    ELSE IF c < 2048 THEN <<192 + (c \div 64), 128 + (c % 64)>>
    ELSE IF c < 65536
         THEN <<224 + (c \div 4096), 128 + ((c \div 64) % 64), 128 + (c % 64)>>
    ELSE <<240 + (c \div 262144), 128 + ((c \div 4096) % 64), 128 + ((c \div 64) % 64),
           128 + (c % 64)>>

RECURSIVE Utf8Encode(_)
Utf8Encode(s) == IF s = <<>> THEN <<>> ELSE Utf8Encode1(Head(s)) \o Utf8Encode(Tail(s))

\* the code point whose bits a sequence of n bytes carries
Bits(b) ==
    IF Len(b) = 1 THEN b[1]
    ELSE IF Len(b) = 2 THEN (b[1] % 32) * 64 + (b[2] % 64)
    ELSE IF Len(b) = 3 THEN (b[1] % 16) * 4096 + (b[2] % 64) * 64 + (b[3] % 64)
    ELSE (b[1] % 8) * 262144 + (b[2] % 64) * 4096 + (b[3] % 64) * 64 + (b[4] % 64)

\* b is the encoding of some sequence of Unicode scalar values
RECURSIVE WellFormed(_)
WellFormed(b) ==
    \/ b = <<>>
    \/ \E n \in 1..4 :
          /\ n <= Len(b)
          /\ LET c == Bits(SubSeq(b, 1, n)) IN
                IsScalar(c) /\ Utf8Encode1(c) = SubSeq(b, 1, n)
          /\ WellFormed(SubSeq(b, n + 1, Len(b)))

WhiteSpace ==
    {9, 10, 11, 12, 13, 28, 29, 30, 31, 32, 133, 160, 5760, 8232, 8233, 8239,
     8287, 12288} \cup (8192..8202)

\* b encodes white space only
RECURSIVE WhiteBytes(_)
WhiteBytes(b) ==
    \/ b = <<>>
    \/ \E c \in WhiteSpace :
          /\ IsPrefix(Utf8Encode1(c), b)
          /\ WhiteBytes(SubSeq(b, Len(Utf8Encode1(c)) + 1, Len(b)))

\* t is the text that bytes b encode, without its trailing white space
StrippedTextOf(t, b) ==
    /\ t = <<>> \/ t[Len(t)] \notin WhiteSpace
    /\ IsPrefix(Utf8Encode(t), b)
    /\ WhiteBytes(SubSeq(b, Len(Utf8Encode(t)) + 1, Len(b)))

\* m is the output the script owes for the line b
OutputFor(m, b) ==
    IF WellFormed(b) THEN m.kind = "text" /\ StrippedTextOf(m.val, b)
    ELSE m = RawLine(b)

(* ----------------------------------------------------------------------- *)
\* C1: in every run where the open succeeded, ser.close() has been executed
\* exactly once when the run ends (never twice, never zero times),
\* whichever way the run leaves the open state.
C1_ClosedExactlyOnce ==
    /\ closeCount <= 1
    /\ (pc = "done" /\ ser = "bound") => closeCount = 1

(* ----------------------------------------------------------------------- *)
\* C2: if serial.Serial raised SerialException then the open was attempted
\* once and is not retried, in_waiting and readline are never called, no
\* line is printed, ser.close() is never called, "Serial port closed" is
\* never printed, the failure is reported at most once, and exactly once
\* when the try statement is left without an exception.
C2_OpenFailureOnlyReported ==
    openFailed =>
        /\ opens = 1
        /\ pc # "open"
        /\ ~polled
        /\ received = <<>>
        /\ LineOutputs = <<>>
        /\ closeCount = 0
        /\ Count("closed") = 0
        /\ Count("error") <= 1
        /\ (pc \in {"finally", "done"} /\ exc = "none") => Count("error") = 1

C2_Witness ==
    openFailed /\ pc = "done" /\ out = <<Msg("error")>>

(* ----------------------------------------------------------------------- *)
\* C3: when a KeyboardInterrupt has arrived while the connection was open,
\* the run ends with "Stopped by user" printed once, the connection closed
\* once, "Serial port closed" printed last, no error reported and no
\* exception escaping.
C3_InterruptStopsThenCloses ==
    (pc = "done" /\ intrOpen) =>
        /\ Count("stopped") = 1
        /\ closeCount = 1
        /\ out[Len(out)] = Msg("closed")
        /\ Count("error") = 0
        /\ exc = "none"

(* ----------------------------------------------------------------------- *)
\* C4 (the timeout case): a run whose open succeeded and that ends without
\* interruption or failure - it stopped by reaching the 15 s bound - has
\* printed a status message at connect, one at stop and one at close.
C4_StatusAtConnectStopClose ==
    (pc = "done" /\ ser = "bound" /\ interrupts = 0 /\ exc = "none"
                 /\ Count("error") = 0) =>
        /\ Count("connected") = 1
        /\ Count("stopped") = 1
        /\ Count("closed") = 1

(* ----------------------------------------------------------------------- *)
\* C5: the "Error opening serial port" report appears only in runs whose
\* open failed.
C5_ErrorOnlyWhenOpenFailed ==
    Count("error") > 0 => openFailed

(* ----------------------------------------------------------------------- *)
\* C6: the i-th line output is the output owed for the i-th line readline
\* returned: the decoded text without trailing white space when the bytes
\* are well-formed UTF-8, the raw bytes tagged as raw otherwise; there is
\* never more than one output per line, and when the loop is back at its
\* head every line read has its output.
C6_OneOutputPerLine ==
    /\ Len(LineOutputs) <= Len(received)
    /\ \A i \in 1..Len(LineOutputs) : OutputFor(LineOutputs[i], received[i])
    /\ pc \in {"while", "check", "readline"} => Len(LineOutputs) = Len(received)

C6_Witness ==
    /\ pc = "while"
    /\ received = << <<104, 105, 32, 10>> >>
    /\ LineOutputs = << TextLine(<<104, 105>>) >>

(* ----------------------------------------------------------------------- *)
\* C7: no availability check is started once elapsed >= duration, and in a
\* run that is not interrupted the loop is never still running later than
\* duration + timeout after its start.
C7_LoopBounded ==
    /\ pc = "check" => Elapsed < DURATION
    /\ (pc \in {"while", "check", "readline", "decode", "print_text", "print_raw"}
        /\ interrupts = 0) => Elapsed <= DURATION + TIMEOUT

(* ----------------------------------------------------------------------- *)
\* C8: a step of the script that finds the line not to be well-formed UTF-8
\* goes on to print it raw, and the step that prints it raw returns to the
\* loop head; neither closes the connection, raises, or leaves the loop.
C8_DecodeFailureNonFatal ==
    [][ /\ (pc = "decode" /\ pc' # pc /\ interrupts' = interrupts
               /\ ~WellFormed(data))
            => (pc' = "print_raw" /\ is_open' /\ exc' = "none"
                   /\ closeCount' = 0 /\ out' = out)
        /\ (pc = "print_raw" /\ pc' # pc /\ interrupts' = interrupts)
            => (pc' = "while" /\ is_open' /\ exc' = "none"
                   /\ closeCount' = 0 /\ out' = Append(out, RawLine(data))) ]_vars

\* a line is read and printed after a raw line
C8_Witness ==
    /\ Len(LineOutputs) >= 2
    /\ LineOutputs[1].kind = "raw"
    /\ is_open
    /\ pc = "while"

Rank(m) ==
    IF m.kind = "connected" THEN 1
    ELSE IF m.kind = "monitoring" THEN 2
    ELSE IF m.kind = "separator" THEN 3
    ELSE IF IsLine(m) THEN 4
    ELSE IF m.kind \in {"stopped", "error"} THEN 5
    ELSE 6

C10_OutputShape ==
    /\ \A i \in 1..Len(out) - 1 :
          \/ Rank(out[i]) < Rank(out[i + 1])
          \/ IsLine(out[i]) /\ IsLine(out[i + 1])
    /\ \A i \in 1..Len(out) :
          (Rank(out[i]) \in 2..4 /\ i > 1) => Rank(out[i - 1]) >= Rank(out[i]) - 1
    /\ \A i \in 1..Len(out) : Rank(out[i]) \in 2..4 => i > 1
    /\ Count("closed") > 0 => (closeCount = 1 /\ ~is_open)

C10_Witness ==
    /\ pc = "done"
    /\ Len(out) = 6
    /\ out[4].kind = "raw"
    /\ out[5] = Msg("stopped")
    /\ out[6] = Msg("closed")

(* ----------------------------------------------------------------------- *)
(* What does hold where C1, C3 and C7 fail.                                *)
(* ----------------------------------------------------------------------- *)
\* The connection is closed exactly once in every run that opened it and in
\* which no KeyboardInterrupt was raised outside the try body.
ClosedOnceUnlessInterruptEscapes ==
    (pc = "done" /\ ser = "bound" /\ exc # "KeyboardInterrupt") => closeCount = 1

\* An interruption in the try body that is the only one is handled as C3
\* says.
SingleInterruptStopsThenCloses ==
    (pc = "done" /\ intrOpen /\ exc = "none") =>
        /\ Count("stopped") = 1
        /\ closeCount = 1
        /\ out[Len(out)] = Msg("closed")
        /\ Count("error") = 0

\* Once a KeyboardInterrupt was raised the script polls, reads and prints
\* no line any more.
NoPollingAfterInterrupt ==
    [][interrupts >= 1 =>
          /\ received' = received
          /\ LineOutputs' = LineOutputs
          /\ pc' \notin {"check", "readline", "decode", "print_text", "print_raw"}]_vars

\* An availability check, and so a readline, starts only while
\* elapsed < duration.
ChecksOnlyBeforeDeadline ==
    /\ pc = "check" => Elapsed < DURATION
    /\ (pc = "readline" /\ data = <<>>) => Elapsed < DURATION

====
